---- MODULE Spec2Model ----
(***************************************************************************)
(* Model of FullLifecycleSimulation (simulation_full.py): one run of the   *)
(* seven-phase AdCP:Buy lifecycle against a remote service reached through *)
(* _call_tool.  The run is a single coroutine; every `await _call_tool`    *)
(* is a suspension point, so an action is the code between two awaits.     *)
(* The remote service and the fastmcp client are external: what they       *)
(* return is drawn from small sets.                                        *)
(***************************************************************************)
EXTENDS Integers, Sequences, FiniteSets, TLC

VARIABLES
    pc,                \* position of the coroutine inside the current phase
    status,            \* "running", "aborted", "crashed" or "done"
    entered,           \* phases entered so far, with the call counts at entry
    awaiting,          \* the remote call being awaited, or NoCall
    result,            \* value returned by the last _call_tool
    calls,             \* every request handed to client.call_tool, in order
    returned,          \* number of _call_tool invocations that have returned
    current_date,      \* simulated day last shown by _show_day
    media_buy_id,      \* self.media_buy_id
    creative_ids,      \* self.creative_ids
    products,          \* len(self.products)
    check_idx,         \* index into approval_days of the current check
    all_approved,      \* local all_approved of the last completed check
    monitor_idx,       \* index into monitoring_days of the current read
    delivery_response, \* local delivery_response of _phase_6_optimization
    poll_history,      \* what each completed status check returned (summary)
    daily_data,        \* local daily_data of _phase_5_in_flight
    snapshot_days,     \* days_elapsed of every delivery snapshot received, in order
    div_fault,         \* a division by zero was executed
    final_report,      \* what _phase_7_completion presented
    cls_in,            \* spend and budget handed to the completion classification
    cls_out            \* its result

vars == <<pc, status, entered, awaiting, result, calls, returned, current_date,
          media_buy_id, creative_ids, products, check_idx, all_approved,
          monitor_idx, delivery_response, poll_history, daily_data,
          snapshot_days, div_fault, final_report, cls_in, cls_out>>

-----------------------------------------------------------------------------
(* Bounds of the model *)

\* longest "statuses" list a creative response carries
MaxStatuses == 2
\* longest "products" list a discovery response carries
MaxProducts == 1

-----------------------------------------------------------------------------
(* Timeline: dates are day-of-year numbers of 2025, timedelta(days=n) is +n *)

planning_date == 156
buy_date == 166
creative_date == 171
flight_start == 213
flight_end == 227

NoDate == 0

approval_days == <<creative_date + 1, creative_date + 2, creative_date + 3>>

monitoring_days == <<flight_start, flight_start + 2, flight_start + 5, flight_start + 8>>

pre_flight_date == flight_start - 2

optimization_date == flight_start + 7

completion_date == flight_end + 1

\* performance_index and confidence_score, in hundredths
IndexOnTrack == 120
IndexOther == 85
ConfidenceScore == 92
NoIndex == 0

-----------------------------------------------------------------------------
(* Values *)

\* Python None held in self.media_buy_id
NoId == "None"

MediaBuyIds == {"mb_1"}

SubmittedCreatives == <<"cr_purina_dog_30s_v1", "cr_purina_cat_30s_v1">>

\* identifiers the remote service may name in a statuses list
CreativeIdUniverse == {"cr_purina_dog_30s_v1", "cr_purina_cat_30s_v1", "cr_other"}

ApprovalValues == {"pending", "approved"}

PacingValues == {"on_track", "under_delivery", "over_delivery", "unknown"}

DeliveryStatusValues == {"scheduled", "active"}

NoOverlay == [geography |-> <<>>, content_categories_exclude |-> <<>>]

BuyOverlay ==
    [geography |-> <<"USA-CA", "USA-NY">>,
     content_categories_exclude |-> <<"controversial", "politics">>]

WidenedOverlay ==
    [geography |-> <<"USA-CA", "USA-NY", "USA-TX", "USA-FL">>,
     content_categories_exclude |-> <<"controversial">>]

Range(s) == {s[i] : i \in 1..Len(s)}

SeqsUpTo(S, n) == UNION {[1..k -> S] : k \in 0..n}

-----------------------------------------------------------------------------
(* Structured results: a Python dict is a record with the set `has` of the *)
(* keys present; a key outside `has` carries a fixed filler.  isNone marks *)
(* the Python value None standing where a dict is expected.                *)

EmptyDict ==
    [isNone |-> FALSE, has |-> {}, products |-> 0, media_buy_id |-> "",
     statuses |-> <<>>, status |-> "", pacing |-> "", spend |-> 0,
     impressions |-> 0, days_elapsed |-> 0, total_days |-> 0]

NoneValue == [EmptyDict EXCEPT !.isNone = TRUE]

\* dict.get(key, default)
Get(d, key, default) == IF key \in d.has THEN d[key] ELSE default

\* `if x is not None:` in place of `if x:`
TruthyStr_NotNone(s) == s # NoId

\* `if x:` on a str-or-None value
TruthyStr(s) == s # NoId /\ s # ""

StatusEntries == [creative_id : CreativeIdUniverse, status : ApprovalValues]

ProductDicts ==
    {EmptyDict} \cup
    {[EmptyDict EXCEPT !.has = {"products"}, !.products = n] : n \in 0..MaxProducts}

BuyDicts ==
    {EmptyDict} \cup
    {[EmptyDict EXCEPT !.has = {"media_buy_id"}, !.media_buy_id = id] :
        id \in MediaBuyIds \cup {""}}

\* position of an identifier in the order the service lists creatives
ListingRank(c) ==
    CASE c = "cr_purina_dog_30s_v1" -> 1
      [] c = "cr_purina_cat_30s_v1" -> 2
      [] OTHER -> 3

\* statuses lists of a response: at most MaxStatuses entries, each creative
\* listed at most once, in listing order
StatusLists ==
    {s \in SeqsUpTo(StatusEntries, MaxStatuses) :
        \A i, j \in 1..Len(s) :
            i < j => ListingRank(s[i].creative_id) < ListingRank(s[j].creative_id)}

CreativeDicts ==
    {EmptyDict} \cup
    {[EmptyDict EXCEPT !.has = {"statuses"}, !.statuses = s] : s \in StatusLists}

DeliveryDicts ==
    {EmptyDict} \cup
    {[EmptyDict EXCEPT !.has = {"status"}, !.status = st] : st \in DeliveryStatusValues} \cup
    {[EmptyDict EXCEPT !.has = {"pacing"}, !.pacing = p] : p \in PacingValues} \cup
    {[EmptyDict EXCEPT !.has = {"status", "pacing"}, !.status = st, !.pacing = p] :
        st \in DeliveryStatusValues, p \in PacingValues}

\* results of the two update tools; one of them names another media buy
AckDicts ==
    {EmptyDict} \cup
    {[EmptyDict EXCEPT !.has = {"status"}, !.status = st] : st \in {"success", "error"}} \cup
    {[EmptyDict EXCEPT !.has = {"status", "media_buy_id"}, !.status = "success",
                       !.media_buy_id = "mb_other"]}

\* what the remote service can put in structured_content, per tool
DictsFor(tool) ==
    CASE tool = "list_products" -> ProductDicts
      [] tool = "create_media_buy" -> BuyDicts
      [] tool = "submit_creatives" -> CreativeDicts
      [] tool = "check_creative_status" -> CreativeDicts
      [] tool = "get_media_buy_delivery" -> DeliveryDicts
      [] OTHER -> AckDicts

\* what `await self.client.call_tool(...)` can do: raise, return an object
\* without a structured_content attribute, return one whose structured_content
\* is None, or return one whose structured_content is a dict
ClientOutcomes(tool) ==
    {[kind |-> k, content |-> EmptyDict] : k \in {"raise", "no_attr", "none"}} \cup
    {[kind |-> "content", content |-> d] : d \in DictsFor(tool)}

-----------------------------------------------------------------------------
(* Requests *)

NoParams ==
    [media_buy_id |-> NoId, today |-> NoDate, creative_ids |-> <<>>,
     performance_index |-> NoIndex, confidence_score |-> NoIndex,
     overlay |-> NoOverlay]

NoCall == [tool |-> "none", params |-> NoParams]

\* the body of _call_tool, given what client.call_tool did
_call_tool(outcome) ==
    IF outcome.kind = "raise" THEN EmptyDict
    ELSE IF outcome.kind = "no_attr" THEN EmptyDict
    ELSE IF outcome.kind = "none" THEN NoneValue
    ELSE outcome.content

\* run() with two awaits exchanged: pre-flight before creative submission
RunOrder_Swapped ==
    <<"Planning", "Buying", "PreFlight", "CreativeSubmission", "InFlight",
      "Optimization", "Completion">>

\* the order in which run() awaits the phases
RunOrder ==
    <<"Planning", "Buying", "CreativeSubmission", "PreFlight", "InFlight",
      "Optimization", "Completion">>

Phase == IF entered = <<>> THEN "none" ELSE entered[Len(entered)].phase

\* run() is about to await the phase method of `p`
AtPhaseStart(p) ==
    /\ status = "running"
    /\ pc = "ready"
    /\ awaiting = NoCall
    /\ Len(entered) < Len(RunOrder)
    /\ RunOrder[Len(entered) + 1] = p

Enter(p) ==
    entered' = Append(entered, [phase |-> p, issued |-> Len(calls), returned |-> returned])

\* _show_day(day, ...) followed by `await self._call_tool(tool, params)`
Issue(day, tool, params) ==
    /\ current_date' = day
    /\ awaiting' = [tool |-> tool, params |-> params]
    /\ calls' = Append(calls, [day |-> day, tool |-> tool, params |-> params])

\* the coroutine resumes at label `l` with the value _call_tool returned
Resumed(l) ==
    /\ status = "running"
    /\ pc = l
    /\ awaiting = NoCall

\* an exception leaves the phase method and run(): the run stops where it is
Raise(how) ==
    /\ status' = how
    /\ UNCHANGED <<pc, entered, awaiting, result, calls, returned, current_date,
                   media_buy_id, creative_ids, products, check_idx, all_approved,
                   monitor_idx, delivery_response, poll_history, daily_data,
                   snapshot_days, div_fault, final_report, cls_in, cls_out>>

\* locals of the phase methods do not outlive the phase
ResetLocals ==
    /\ check_idx' = 0
    /\ all_approved' = FALSE
    /\ monitor_idx' = 0
    /\ delivery_response' = EmptyDict
    /\ daily_data' = <<>>

DeliveryParams(day) == [NoParams EXCEPT !.media_buy_id = media_buy_id, !.today = day]

-----------------------------------------------------------------------------
(* The gateway *)

\* the snapshots received so far, once `r` has been returned for `call`: a
\* delivery result that carries days_elapsed is one more snapshot
Received(call, r) ==
    IF call.tool = "get_media_buy_delivery" /\ ~r.isNone /\ "days_elapsed" \in r.has
    THEN Append(snapshot_days, [today |-> call.params.today, days_elapsed |-> r.days_elapsed])
    ELSE snapshot_days

CallTool_Return ==
    /\ status = "running"
    /\ UNCHANGED <<daily_data, div_fault, final_report, cls_in, cls_out>>
    /\ awaiting # NoCall
    /\ \E outcome \in ClientOutcomes(awaiting.tool) :
          result' = _call_tool(outcome)
    /\ snapshot_days' = Received(awaiting, result')
    /\ awaiting' = NoCall
    /\ returned' = returned + 1
    /\ UNCHANGED <<pc, status, entered, calls, current_date, media_buy_id,
                   creative_ids, products, check_idx, all_approved, monitor_idx,
                   delivery_response, poll_history>>

\* A remote service that answers delivery reads from the as-of date it is
\* asked about, and every other tool with its expected result.

\* days_elapsed of the flight as of `today`: non-decreasing in `today`
ServiceDays(today) ==
    IF today < flight_start THEN 0
    ELSE IF today > flight_end THEN flight_end - flight_start + 1
    ELSE today - flight_start

\* cumulative amounts as of `today`: nothing delivered, or a steady delivery
\* (spend in cents)
ServiceAmounts(today) ==
    {[spend |-> 0, impressions |-> 0],
     [spend |-> ServiceDays(today) * 320000,
      impressions |-> ServiceDays(today) * 100000]}

ServiceStatus(today) ==
    IF today < flight_start THEN "scheduled"
    ELSE IF today > flight_end THEN "completed"
    ELSE "active"

DeliverySnapshots(today) ==
    {EmptyDict} \cup
    {[EmptyDict EXCEPT
        !.has = {"status", "pacing", "spend", "impressions", "days_elapsed", "total_days"},
        !.status = ServiceStatus(today), !.pacing = p,
        !.spend = a.spend, !.impressions = a.impressions,
        !.days_elapsed = ServiceDays(today), !.total_days = td] :
        p \in PacingValues \ {"unknown"}, a \in ServiceAmounts(today),
        td \in {0, flight_end - flight_start + 1}}

\* every submitted creative listed with status `st`
StatusesAll(st) ==
    [i \in 1..Len(SubmittedCreatives) |->
        [creative_id |-> SubmittedCreatives[i], status |-> st]]

ServedDicts(call) ==
    CASE call.tool = "get_media_buy_delivery" -> DeliverySnapshots(call.params.today)
      [] call.tool = "list_products" ->
            {[EmptyDict EXCEPT !.has = {"products"}, !.products = 1]}
      [] call.tool = "create_media_buy" ->
            {[EmptyDict EXCEPT !.has = {"media_buy_id"}, !.media_buy_id = id] :
                id \in MediaBuyIds}
      [] call.tool = "submit_creatives" ->
            {[EmptyDict EXCEPT !.has = {"statuses"}, !.statuses = StatusesAll("pending")]}
      [] call.tool = "check_creative_status" ->
            {[EmptyDict EXCEPT !.has = {"statuses"}, !.statuses = StatusesAll(st)] :
                st \in ApprovalValues}
      [] OTHER -> AckDicts

\* what client.call_tool can do against that service: delivery reads can
\* still fail in every way
ServedOutcomes(call) ==
    {[kind |-> k, content |-> EmptyDict] :
        k \in IF call.tool = "get_media_buy_delivery"
               THEN {"raise", "no_attr", "none"} ELSE {}} \cup
    {[kind |-> "content", content |-> d] : d \in ServedDicts(call)}

CallTool_ReturnServed ==
    /\ status = "running"
    /\ UNCHANGED <<daily_data, div_fault, final_report, cls_in, cls_out>>
    /\ awaiting # NoCall
    /\ \E outcome \in ServedOutcomes(awaiting) :
          result' = _call_tool(outcome)
    /\ snapshot_days' = Received(awaiting, result')
    /\ awaiting' = NoCall
    /\ returned' = returned + 1
    /\ UNCHANGED <<pc, status, entered, calls, current_date, media_buy_id,
                   creative_ids, products, check_idx, all_approved, monitor_idx,
                   delivery_response, poll_history>>

-----------------------------------------------------------------------------
(* Phase 1: planning *)

Phase1_Start ==
    /\ AtPhaseStart("Planning")
    /\ UNCHANGED <<snapshot_days, div_fault, final_report, cls_in, cls_out>>
    /\ Enter("Planning")
    /\ Issue(planning_date, "list_products", NoParams)
    /\ pc' = "p1_list"
    /\ ResetLocals
    /\ UNCHANGED <<status, result, returned, media_buy_id, creative_ids, products,
                   poll_history>>

Phase1_Listed ==
    /\ Resumed("p1_list")
    /\ UNCHANGED <<daily_data, snapshot_days, div_fault, final_report, cls_in, cls_out>>
    /\ IF result.isNone
       THEN Raise("crashed")
       ELSE /\ products' = Get(result, "products", 0)
            /\ pc' = "ready"
            /\ UNCHANGED <<status, entered, awaiting, result, calls, returned,
                           current_date, media_buy_id, creative_ids, check_idx,
                           all_approved, monitor_idx, delivery_response, poll_history>>

-----------------------------------------------------------------------------
(* Phase 2: buying *)

BuyParams == [NoParams EXCEPT !.overlay = BuyOverlay]

Phase2_Start ==
    /\ AtPhaseStart("Buying")
    /\ UNCHANGED <<snapshot_days, div_fault, final_report, cls_in, cls_out>>
    /\ Enter("Buying")
    /\ Issue(buy_date, "create_media_buy", BuyParams)
    /\ pc' = "p2_create"
    /\ ResetLocals
    /\ UNCHANGED <<status, result, returned, media_buy_id, creative_ids, products,
                   poll_history>>

Phase2_Created ==
    /\ Resumed("p2_create")
    /\ UNCHANGED <<daily_data, snapshot_days, div_fault, final_report, cls_in, cls_out>>
    /\ IF result.isNone
       THEN Raise("crashed")
       ELSE /\ media_buy_id' = Get(result, "media_buy_id", NoId)
            /\ IF TruthyStr(media_buy_id')
               THEN pc' = "ready" /\ status' = status
               ELSE pc' = pc /\ status' = "aborted"
            /\ UNCHANGED <<entered, awaiting, result, calls, returned, current_date,
                           creative_ids, products, check_idx, all_approved,
                           monitor_idx, delivery_response, poll_history>>

-----------------------------------------------------------------------------
(* Phase 3: creative submission and approval polling *)

SubmitParams ==
    [NoParams EXCEPT !.media_buy_id = media_buy_id, !.creative_ids = SubmittedCreatives]

CheckParams == [NoParams EXCEPT !.creative_ids = creative_ids]

\* [status.get("creative_id") for status in statuses]
IdsOf(statuses) == [i \in 1..Len(statuses) |-> statuses[i].creative_id]

\* all_approved after the loop over a check's statuses
AllApproved(statuses) ==
    \A i \in 1..Len(statuses) : statuses[i].status = "approved"

\* every identifier of `ids` is listed as approved in `statuses`
ListsApproved(statuses, ids) ==
    \A c \in ids :
        \E i \in 1..Len(statuses) :
            statuses[i].creative_id = c /\ statuses[i].status = "approved"

\* what is remembered of a completed check: was the gateway result empty, did
\* it report every submitted creative approved, did it list every tracked
\* identifier as approved
PollSummary(r) ==
    [empty |-> (r.has = {}),
     all_reported |-> /\ AllApproved(Get(r, "statuses", <<>>))
                      /\ ListsApproved(Get(r, "statuses", <<>>), Range(SubmittedCreatives)),
     tracked_approved |-> ListsApproved(Get(r, "statuses", <<>>), Range(creative_ids))]

\* the loop over approval_days without its `break`
StopPolling_NoBreak(approved, idx) == idx = Len(approval_days)

\* `break` after a check: leave the loop over approval_days
StopPolling(approved, idx) == approved \/ idx = Len(approval_days)

Phase3_Start ==
    /\ AtPhaseStart("CreativeSubmission")
    /\ UNCHANGED <<snapshot_days, div_fault, final_report, cls_in, cls_out>>
    /\ Enter("CreativeSubmission")
    /\ Issue(creative_date, "submit_creatives", SubmitParams)
    /\ pc' = "p3_submit"
    /\ ResetLocals
    /\ UNCHANGED <<status, result, returned, media_buy_id, creative_ids, products,
                   poll_history>>

Phase3_Submitted ==
    /\ Resumed("p3_submit")
    /\ UNCHANGED <<daily_data, snapshot_days, div_fault, final_report, cls_in, cls_out>>
    /\ IF result.isNone
       THEN Raise("crashed")
       ELSE /\ creative_ids' = creative_ids \o IdsOf(Get(result, "statuses", <<>>))
            /\ check_idx' = 1
            /\ Issue(approval_days[1], "check_creative_status",
                     [NoParams EXCEPT !.creative_ids = creative_ids'])
            /\ pc' = "p3_check"
            /\ UNCHANGED <<status, entered, result, returned, media_buy_id, products,
                           all_approved, monitor_idx, delivery_response, poll_history>>

Phase3_Checked ==
    /\ Resumed("p3_check")
    /\ UNCHANGED <<daily_data, snapshot_days, div_fault, final_report, cls_in, cls_out>>
    /\ IF result.isNone
       THEN Raise("crashed")
       ELSE /\ all_approved' = AllApproved(Get(result, "statuses", <<>>))
            /\ poll_history' = Append(poll_history, PollSummary(result))
            /\ IF StopPolling(all_approved', check_idx)
               THEN /\ pc' = "ready"
                    /\ UNCHANGED <<check_idx, awaiting, calls, current_date>>
               ELSE /\ check_idx' = check_idx + 1
                    /\ Issue(approval_days[check_idx + 1], "check_creative_status",
                             CheckParams)
                    /\ pc' = pc
            /\ UNCHANGED <<status, entered, result, returned, media_buy_id,
                           creative_ids, products, monitor_idx, delivery_response>>

-----------------------------------------------------------------------------
(* Phase 4: pre-flight *)

Phase4_Start ==
    /\ AtPhaseStart("PreFlight")
    /\ UNCHANGED <<snapshot_days, div_fault, final_report, cls_in, cls_out>>
    /\ Enter("PreFlight")
    /\ Issue(pre_flight_date, "get_media_buy_delivery", DeliveryParams(pre_flight_date))
    /\ pc' = "p4_read"
    /\ ResetLocals
    /\ UNCHANGED <<status, result, returned, media_buy_id, creative_ids, products,
                   poll_history>>

Phase4_Read ==
    /\ Resumed("p4_read")
    /\ UNCHANGED <<daily_data, snapshot_days, div_fault, final_report, cls_in, cls_out>>
    /\ IF result.isNone
       THEN Raise("crashed")
       ELSE /\ pc' = "ready"
            /\ UNCHANGED <<status, entered, awaiting, result, calls, returned,
                           current_date, media_buy_id, creative_ids, products,
                           check_idx, all_approved, monitor_idx, delivery_response,
                           poll_history>>

-----------------------------------------------------------------------------
(* Phase 5: in-flight monitoring *)

\* the entry appended to daily_data for the read of `day`
DailyEntry(day, d) ==
    [date |-> day, spend |-> Get(d, "spend", 0),
     impressions |-> Get(d, "impressions", 0), pacing |-> Get(d, "pacing", "unknown")]

\* guard of the flight-progress division by total_days
ProgressDivides(d) == Get(d, "total_days", 0) > 0

\* `>= 0` in place of `> 0`
EcpmDivides_NonNegative(d) == Get(d, "impressions", 0) >= 0

\* guard of the effective-CPM division by impressions
EcpmDivides(d) == Get(d, "impressions", 0) > 0

Max(S) == CHOOSE x \in S : \A y \in S : y <= x

\* max_impressions of _show_performance_trend
MaxImpressions(data) ==
    IF data # <<>> THEN Max({data[i].impressions : i \in 1..Len(data)}) ELSE 1

\* guard of the bar-scale division by max_impressions
TrendDivides(data) == MaxImpressions(data) > 0

\* a division of the read's display is executed with divisor zero
ReadFault(d) ==
    \/ ProgressDivides(d) /\ Get(d, "total_days", 0) = 0
    \/ EcpmDivides(d) /\ Get(d, "impressions", 0) = 0

\* a division of the trend display is executed with divisor zero
TrendFault(data) ==
    data # <<>> /\ TrendDivides(data) /\ MaxImpressions(data) = 0

Phase5_Start ==
    /\ AtPhaseStart("InFlight")
    /\ UNCHANGED <<snapshot_days, div_fault, final_report, cls_in, cls_out>>
    /\ Enter("InFlight")
    /\ Issue(monitoring_days[1], "get_media_buy_delivery",
             DeliveryParams(monitoring_days[1]))
    /\ pc' = "p5_read"
    /\ check_idx' = 0
    /\ all_approved' = FALSE
    /\ monitor_idx' = 1
    /\ delivery_response' = EmptyDict
    /\ daily_data' = <<>>
    /\ UNCHANGED <<status, result, returned, media_buy_id, creative_ids, products,
                   poll_history>>

Phase5_Read ==
    /\ Resumed("p5_read")
    /\ UNCHANGED <<snapshot_days, final_report, cls_in, cls_out>>
    /\ IF result.isNone
       THEN Raise("crashed")
       ELSE /\ daily_data' = Append(daily_data, DailyEntry(monitoring_days[monitor_idx], result))
            /\ IF \/ ReadFault(result)
                  \/ monitor_idx = Len(monitoring_days) /\ TrendFault(daily_data')
               THEN /\ div_fault' = TRUE
                    /\ status' = "crashed"
                    /\ UNCHANGED <<pc, monitor_idx, awaiting, calls, current_date>>
               ELSE /\ div_fault' = div_fault
                    /\ status' = status
                    /\ IF monitor_idx = Len(monitoring_days)
                       THEN /\ pc' = "ready"
                            /\ UNCHANGED <<monitor_idx, awaiting, calls, current_date>>
                       ELSE /\ monitor_idx' = monitor_idx + 1
                            /\ Issue(monitoring_days[monitor_idx + 1],
                                     "get_media_buy_delivery",
                                     DeliveryParams(monitoring_days[monitor_idx + 1]))
                            /\ pc' = pc
            /\ UNCHANGED <<entered, result, returned, media_buy_id, creative_ids,
                           products, check_idx, all_approved, delivery_response,
                           poll_history>>

-----------------------------------------------------------------------------
(* Phase 6: mid-flight optimization *)

\* the index with a missing pacing read as on_track
PerformanceIndex_DefaultOnTrack(d) ==
    IF Get(d, "pacing", "on_track") = "on_track" THEN IndexOnTrack ELSE IndexOther

\* performance_index sent for a delivery read
PerformanceIndex(d) ==
    IF Get(d, "pacing", NoId) = "on_track" THEN IndexOnTrack ELSE IndexOther

PerformanceParams(d) ==
    [NoParams EXCEPT !.media_buy_id = media_buy_id,
                     !.performance_index = PerformanceIndex(d),
                     !.confidence_score = ConfidenceScore]

\* the identifier taken from the latest response when it names one
UpdateParams_FromResponse ==
    [NoParams EXCEPT !.media_buy_id = Get(result, "media_buy_id", media_buy_id),
                     !.overlay = WidenedOverlay]

UpdateParams ==
    [NoParams EXCEPT !.media_buy_id = media_buy_id, !.overlay = WidenedOverlay]

\* the branch taken on the pacing of the optimization read
OptimizationAction(d) ==
    IF Get(d, "pacing", "unknown") = "under_delivery" THEN "expand-targeting"
    ELSE IF Get(d, "pacing", "unknown") = "over_delivery" THEN "flag-for-budget-review"
    ELSE "no-op"

Phase6_Start ==
    /\ AtPhaseStart("Optimization")
    /\ UNCHANGED <<snapshot_days, div_fault, final_report, cls_in, cls_out>>
    /\ Enter("Optimization")
    /\ Issue(optimization_date, "get_media_buy_delivery", DeliveryParams(optimization_date))
    /\ pc' = "p6_read"
    /\ ResetLocals
    /\ UNCHANGED <<status, result, returned, media_buy_id, creative_ids, products,
                   poll_history>>

Phase6_Read ==
    /\ Resumed("p6_read")
    /\ UNCHANGED <<daily_data, snapshot_days, div_fault, final_report, cls_in, cls_out>>
    /\ delivery_response' = result
    /\ IF result.isNone
       THEN /\ status' = "crashed"
            /\ UNCHANGED <<pc, awaiting, calls>>
       ELSE /\ awaiting' = [tool |-> "update_performance_index",
                            params |-> PerformanceParams(result)]
            /\ calls' = Append(calls, [day |-> current_date,
                                       tool |-> "update_performance_index",
                                       params |-> PerformanceParams(result)])
            /\ pc' = "p6_perf"
            /\ status' = status
    /\ UNCHANGED <<entered, result, returned, current_date, media_buy_id,
                   creative_ids, products, check_idx, all_approved, monitor_idx,
                   poll_history>>

Phase6_Feedback ==
    /\ Resumed("p6_perf")
    /\ UNCHANGED <<daily_data, snapshot_days, div_fault, final_report, cls_in, cls_out>>
    /\ IF result.isNone
       THEN Raise("crashed")
       ELSE /\ IF OptimizationAction(delivery_response) = "expand-targeting"
               THEN /\ awaiting' = [tool |-> "update_media_buy", params |-> UpdateParams]
                    /\ calls' = Append(calls, [day |-> current_date,
                                               tool |-> "update_media_buy",
                                               params |-> UpdateParams])
                    /\ pc' = "p6_update"
               ELSE /\ pc' = "ready"
                    /\ UNCHANGED <<awaiting, calls>>
            /\ UNCHANGED <<status, entered, result, returned, current_date,
                           media_buy_id, creative_ids, products, check_idx,
                           all_approved, monitor_idx, delivery_response, poll_history>>

Phase6_Updated ==
    /\ Resumed("p6_update")
    /\ UNCHANGED <<daily_data, snapshot_days, div_fault, final_report, cls_in, cls_out>>
    /\ IF result.isNone
       THEN Raise("crashed")
       ELSE /\ pc' = "ready"
            /\ UNCHANGED <<status, entered, awaiting, result, calls, returned,
                           current_date, media_buy_id, creative_ids, products,
                           check_idx, all_approved, monitor_idx, delivery_response,
                           poll_history>>

-----------------------------------------------------------------------------
(* Phase 7: completion *)

\* budget of the campaign, in cents (amounts are whole cents)
Budget == 5000000

\* `if budget != 0` in place of `if budget > 0`
DeliveryPct_NonZero(spend, budget) ==
    IF budget # 0
    THEN [num |-> spend * 100, den |-> budget, divided |-> TRUE]
    ELSE [num |-> 0, den |-> 1, divided |-> FALSE]

\* delivery_pct as the exact quotient num / den; `divided` tells whether the
\* division by budget is executed
DeliveryPct(spend, budget) ==
    IF budget > 0
    THEN [num |-> spend * 100, den |-> budget, divided |-> TRUE]
    ELSE [num |-> 0, den |-> 1, divided |-> FALSE]

\* `>` in place of `>=` in both comparisons
Tier_Exclusive(pct) ==
    IF pct.num > 95 * pct.den THEN "excellent"
    ELSE IF pct.num > 80 * pct.den THEN "good"
    ELSE "under-delivery"

\* the if / elif / else on delivery_pct
Tier(pct) ==
    IF pct.num >= 95 * pct.den THEN "excellent"
    ELSE IF pct.num >= 80 * pct.den THEN "good"
    ELSE "under-delivery"

\* the completion classification of a spend against a budget
Classify(spend, budget) ==
    [done |-> TRUE, pct |-> DeliveryPct(spend, budget),
     tier |-> Tier(DeliveryPct(spend, budget))]

PanelLines ==
    {"Campaign ID", "Status", "Total Spend", "Total Impressions", "Effective CPM"}

\* the text handed to Panel(...): the concatenated f-strings when impressions
\* > 0, the empty string otherwise
PanelText(d) ==
    IF Get(d, "impressions", 0) > 0
    THEN [lines |-> PanelLines, campaign_id |-> media_buy_id,
          status |-> Get(d, "status", "unknown"), spend |-> Get(d, "spend", 0),
          impressions |-> Get(d, "impressions", 0)]
    ELSE [lines |-> {}, campaign_id |-> "", status |-> "", spend |-> 0,
          impressions |-> 0]

NoOutput == [done |-> FALSE, pct |-> DeliveryPct(0, 0), tier |-> ""]

NoReport == [shown |-> FALSE, panel |-> PanelText(EmptyDict), class |-> NoOutput]

\* a division of the final report is executed with divisor zero
ReportFault(d, budget) ==
    \/ EcpmDivides(d) /\ Get(d, "impressions", 0) = 0
    \/ DeliveryPct(Get(d, "spend", 0), budget).divided /\ budget = 0

Phase7_Start ==
    /\ AtPhaseStart("Completion")
    /\ UNCHANGED <<snapshot_days, div_fault, final_report, cls_in, cls_out>>
    /\ Enter("Completion")
    /\ Issue(completion_date, "get_media_buy_delivery", DeliveryParams(completion_date))
    /\ pc' = "p7_read"
    /\ ResetLocals
    /\ UNCHANGED <<status, result, returned, media_buy_id, creative_ids, products,
                   poll_history>>

Phase7_Read ==
    /\ Resumed("p7_read")
    /\ UNCHANGED <<daily_data, snapshot_days, cls_in, cls_out>>
    /\ IF result.isNone
       THEN Raise("crashed")
       ELSE /\ IF ReportFault(result, Budget)
               THEN /\ div_fault' = TRUE
                    /\ status' = "crashed"
                    /\ UNCHANGED <<pc, final_report>>
               ELSE /\ div_fault' = div_fault
                    /\ status' = status
                    /\ final_report' =
                          [shown |-> TRUE, panel |-> PanelText(result),
                           class |-> Classify(Get(result, "spend", 0), Budget)]
                    /\ pc' = "ready"
            /\ UNCHANGED <<entered, awaiting, result, calls, returned, current_date,
                           media_buy_id, creative_ids, products, check_idx,
                           all_approved, monitor_idx, delivery_response, poll_history>>

\* run() returns once the last phase it awaits has returned
Run_Return ==
    /\ status = "running"
    /\ UNCHANGED <<daily_data, snapshot_days, div_fault, final_report, cls_in, cls_out>>
    /\ pc = "ready"
    /\ awaiting = NoCall
    /\ Len(entered) = Len(RunOrder)
    /\ status' = "done"
    /\ UNCHANGED <<pc, entered, awaiting, result, calls, returned, current_date,
                   media_buy_id, creative_ids, products, check_idx, all_approved,
                   monitor_idx, delivery_response, poll_history>>

-----------------------------------------------------------------------------

\* inputs of the classification when it is applied on its own
NoInput == [spend |-> 0, budget |-> Budget]

InitRun ==
    /\ pc = "ready"
    /\ status = "running"
    /\ entered = <<>>
    /\ awaiting = NoCall
    /\ result = EmptyDict
    /\ calls = <<>>
    /\ returned = 0
    /\ current_date = NoDate
    /\ media_buy_id = NoId
    /\ creative_ids = <<>>
    /\ products = 0
    /\ check_idx = 0
    /\ all_approved = FALSE
    /\ monitor_idx = 0
    /\ delivery_response = EmptyDict
    /\ poll_history = <<>>
    /\ daily_data = <<>>
    /\ snapshot_days = <<>>
    /\ div_fault = FALSE
    /\ final_report = NoReport

Init ==
    /\ InitRun
    /\ cls_in = NoInput
    /\ cls_out = NoOutput

Next ==
    \/ CallTool_Return
    \/ Phase1_Start
    \/ Phase1_Listed
    \/ Phase2_Start
    \/ Phase2_Created
    \/ Phase3_Start
    \/ Phase3_Submitted
    \/ Phase3_Checked
    \/ Phase4_Start
    \/ Phase4_Read
    \/ Phase5_Start
    \/ Phase5_Read
    \/ Phase6_Start
    \/ Phase6_Read
    \/ Phase6_Feedback
    \/ Phase6_Updated
    \/ Phase7_Start
    \/ Phase7_Read
    \/ Run_Return

Spec == Init /\ [][Next]_vars

\* the same run against the date-driven service
NextServed ==
    \/ CallTool_ReturnServed
    \/ Phase1_Start
    \/ Phase1_Listed
    \/ Phase2_Start
    \/ Phase2_Created
    \/ Phase3_Start
    \/ Phase3_Submitted
    \/ Phase3_Checked
    \/ Phase4_Start
    \/ Phase4_Read
    \/ Phase5_Start
    \/ Phase5_Read
    \/ Phase6_Start
    \/ Phase6_Read
    \/ Phase6_Feedback
    \/ Phase6_Updated
    \/ Phase7_Start
    \/ Phase7_Read
    \/ Run_Return

SpecDelivery == Init /\ [][NextServed]_vars

\* run() is driven to its end by the event loop, and every awaited remote
\* call comes back: a step that can be taken is eventually taken
SpecLive == Init /\ [][Next]_vars /\ WF_vars(Next)

\* The completion classification on its own, over spends and budgets around
\* its cut points (amounts in cents).
ClassifySpends ==
    {-1, 0, 1, 79, 80, 94, 95, 3999999, 4000000, 4000001, 4749999, 4750000,
     4750001, Budget, Budget + 1}

ClassifyBudgets == {Budget, 100, 1, 0, -1, -Budget}

ClassifyInputs == [spend : ClassifySpends, budget : ClassifyBudgets]

InitClassify ==
    /\ InitRun
    /\ cls_in \in ClassifyInputs
    /\ cls_out = NoOutput

Classify_Apply ==
    /\ ~cls_out.done
    /\ cls_out' = Classify(cls_in.spend, cls_in.budget)
    /\ UNCHANGED <<pc, status, entered, awaiting, result, calls, returned,
                   current_date, media_buy_id, creative_ids, products, check_idx,
                   all_approved, monitor_idx, delivery_response, poll_history,
                   daily_data, snapshot_days, div_fault, final_report, cls_in>>

NextClassify == Classify_Apply

SpecClassify == InitClassify /\ [][NextClassify]_vars

-----------------------------------------------------------------------------
(* Properties *)

LifecycleOrder ==
    <<"Planning", "Buying", "CreativeSubmission", "PreFlight", "InFlight",
      "Optimization", "Completion">>

\* remote operations each phase is documented to use
PhaseTools(p) ==
    CASE p = "Planning" -> {"list_products"}
      [] p = "Buying" -> {"create_media_buy"}
      [] p = "CreativeSubmission" -> {"submit_creatives", "check_creative_status"}
      [] p = "Optimization" ->
            {"get_media_buy_delivery", "update_performance_index", "update_media_buy"}
      [] OTHER -> {"get_media_buy_delivery"}

\* index in `entered` of the phase during which call k was issued
PhaseIndexOfCall(k) ==
    CHOOSE i \in 1..Len(entered) :
        /\ entered[i].issued < k
        /\ i < Len(entered) => entered[i + 1].issued >= k

CallIndexes(tool) == {k \in 1..Len(calls) : calls[k].tool = tool}

NumChecks == Cardinality(CallIndexes("check_creative_status"))

\* C1: the phases are entered in the order Planning, Buying,
\* CreativeSubmission, PreFlight, InFlight, Optimization, Completion, each at
\* most once and none skipped, nothing is entered after Completion, a phase is
\* entered only when every remote call issued before it has returned, every
\* call is issued by the phase it belongs to, and the run finishes only after
\* all seven phases.
C1_PhaseOrder ==
    /\ Len(entered) <= Len(LifecycleOrder)
    /\ \A i \in 1..Len(entered) :
          /\ entered[i].phase = LifecycleOrder[i]
          /\ entered[i].issued = entered[i].returned
          /\ i > 1 => entered[i].issued > entered[i - 1].issued
    /\ \A k \in 1..Len(calls) :
          calls[k].tool \in PhaseTools(entered[PhaseIndexOfCall(k)].phase)
    /\ status = "done" => Len(entered) = Len(LifecycleOrder)

C1_Witness ==
    /\ status = "done"
    /\ Len(entered) = 7
    /\ entered[7].phase = "Completion"

\* the create-media-buy call has returned
BuyReturned == Len(calls) >= 2 /\ calls[2].tool = "create_media_buy" /\ returned >= 2

\* the media_buy_id the create-media-buy call returned, NoId when it has none
ReturnedHandle ==
    IF pc = "p2_create"
    THEN IF result.isNone THEN NoId ELSE Get(result, "media_buy_id", NoId)
    ELSE media_buy_id

\* C2: when create-media-buy has returned no media_buy_id (failed call,
\* missing field or empty value) the run stays in Buying and never finishes,
\* CreativeSubmission is not entered, and the create-media-buy call is the
\* last remote call issued.
C2_FatalAbort ==
    (BuyReturned /\ ReturnedHandle \in {NoId, ""}) =>
        /\ Phase = "Buying"
        /\ Len(calls) = 2
        /\ awaiting = NoCall
        /\ status # "done"
        /\ pc = "p2_create"

C2_Witness ==
    /\ status = "aborted"
    /\ media_buy_id = ""
    /\ Phase = "Buying"

\* C3: once create-media-buy has returned a non-empty media_buy_id, nothing
\* stops the run before it finishes Completion.
C3_OnlyHandleStops == TruthyStr(media_buy_id) => status \in {"running", "done"}

\* C4: the value _call_tool returns is always a mapping.
C4_GatewayReturnsMapping == ~result.isNone

\* C5: when check k reports every submitted creative approved, exactly k
\* status checks are issued in the run: none after check k.
C5_StopsAtConvergence ==
    \A k \in 1..Len(poll_history) :
        poll_history[k].all_reported => NumChecks = k

C5_Witness ==
    /\ Len(poll_history) = 2
    /\ poll_history[2].all_reported
    /\ Phase = "PreFlight"
    /\ NumChecks = 2

\* C6: a status check for which the gateway returned an empty result is not
\* counted as convergence: when it is not the last scheduled check, the next
\* scheduled check is issued.
C6_FailedPollContinues ==
    \A k \in 1..Len(poll_history) :
        (poll_history[k].empty /\ k < Len(approval_days)) => NumChecks > k

\* the approval loop has ended and _phase_3_creatives has returned
PollingReturned ==
    /\ Len(entered) >= 3
    /\ entered[3].phase = "CreativeSubmission"
    /\ Len(entered) > 3 \/ pc = "ready"

\* C7: the poller stops before its schedule is exhausted only if the check it
\* stopped on lists every tracked creative identifier as approved.
C7_EarlyStopOnlyWhenAllTracked ==
    (PollingReturned /\ Len(poll_history) < Len(approval_days)) =>
        poll_history[Len(poll_history)].tracked_approved

\* the submit-creatives response has been processed
SubmissionProcessed ==
    /\ Len(entered) >= 3
    /\ entered[3].phase = "CreativeSubmission"
    /\ pc # "p3_submit"

\* C8: after submission the tracked creative identifiers are exactly the
\* submitted ones.
C8_TrackedAreSubmitted ==
    SubmissionProcessed => Range(creative_ids) = Range(SubmittedCreatives)

\* the optimization cycle is over: its method has returned, awaits its last
\* call, or was left by an exception
OptimizationEnded ==
    /\ Phase = "Optimization"
    /\ pc \in {"ready", "p6_update"} \/ status = "crashed"

\* an update-media-buy call carrying the widened overlay was issued
UpdateIssued ==
    \E k \in CallIndexes("update_media_buy") : calls[k].params.overlay = WidenedOverlay

\* C9: in the optimization cycle an update-media-buy call (with the widened
\* overlay) is issued if and only if the pacing of the optimization read is
\* under_delivery.
C9_UpdateIffUnderDelivery ==
    OptimizationEnded =>
        (UpdateIssued <=> Get(delivery_response, "pacing", "unknown") = "under_delivery")

\* C10: the feedback sent in the optimization cycle carries performance_index
\* 1.2 exactly when the pacing of the optimization read is on_track, 0.85 for
\* every other or missing pacing, and confidence_score 0.92.
C10_FeedbackIndex ==
    Phase = "Optimization" =>
        \A k \in CallIndexes("update_performance_index") :
            /\ calls[k].params.confidence_score = 92
            /\ calls[k].params.performance_index \in {120, 85}
            /\ calls[k].params.performance_index = 120 <=>
                  ("pacing" \in delivery_response.has
                      /\ delivery_response.pacing = "on_track")

C10_Witness ==
    /\ Phase = "Optimization"
    /\ delivery_response.has = {}
    /\ \E k \in CallIndexes("update_performance_index") :
          calls[k].params.performance_index = 85

\* tools of the calls issued after the first n, in order
ToolsSince(n) == [k \in 1..(Len(calls) - n) |-> calls[n + k].tool]

\* C11: a run that reaches Optimization performs one optimization cycle: one
\* delivery read, then exactly one update-performance-index call, then at most
\* one update-media-buy call, none of them repeated.
C11_OneOptimizationCycle ==
    OptimizationEnded =>
        ToolsSince(entered[Len(entered)].issued) \in
            {<<"get_media_buy_delivery", "update_performance_index">>,
             <<"get_media_buy_delivery", "update_performance_index", "update_media_buy">>}

\* C12: for a positive budget the tier is excellent exactly when
\* spend / budget * 100 >= 95, good exactly when it is >= 80 and < 95, and
\* under-delivery below 80; with budget 50000, spend 47500 is excellent,
\* 47499.99 good, 40000 good and 39999.99 under-delivery.
C12_CutPoints ==
    (cls_out.done /\ cls_in.budget > 0) =>
        /\ cls_out.pct.divided
        /\ cls_out.pct.num = cls_in.spend * 100 /\ cls_out.pct.den = cls_in.budget
        /\ cls_out.tier = "excellent" <=> cls_in.spend * 100 >= 95 * cls_in.budget
        /\ cls_out.tier = "good" <=>
              /\ cls_in.spend * 100 >= 80 * cls_in.budget
              /\ cls_in.spend * 100 < 95 * cls_in.budget
        /\ cls_out.tier = "under-delivery" <=> cls_in.spend * 100 < 80 * cls_in.budget
        /\ cls_in = [spend |-> 4750000, budget |-> 5000000] => cls_out.tier = "excellent"
        /\ cls_in = [spend |-> 4749999, budget |-> 5000000] => cls_out.tier = "good"
        /\ cls_in = [spend |-> 4000000, budget |-> 5000000] => cls_out.tier = "good"
        /\ cls_in = [spend |-> 3999999, budget |-> 5000000] =>
              cls_out.tier = "under-delivery"

C12_Witness ==
    /\ cls_out.done
    /\ cls_in = [spend |-> 4750000, budget |-> 5000000]
    /\ cls_out.tier = "excellent"

\* C13: for every budget <= 0 and every spend the classification gives
\* delivery_pct 0 and tier under-delivery, and divides nothing.
C13_NonPositiveBudget ==
    (cls_out.done /\ cls_in.budget <= 0) =>
        /\ cls_out.pct.num = 0
        /\ cls_out.tier = "under-delivery"
        /\ ~cls_out.pct.divided

C13_Witness ==
    /\ cls_out.done
    /\ cls_in.budget < 0
    /\ cls_in.spend > 0
    /\ cls_out.tier = "under-delivery"

\* C14: in the order the delivery snapshots of a run are received,
\* days_elapsed never decreases from one snapshot to the next.
C14_DaysElapsedMonotone ==
    \A i \in 1..(Len(snapshot_days) - 1) :
        snapshot_days[i].days_elapsed <= snapshot_days[i + 1].days_elapsed

\* every in-flight read that has returned has been processed
InFlightReadsProcessed ==
    /\ Phase = "InFlight"
    /\ pc = "ready" \/ awaiting # NoCall \/ status = "crashed"

\* C15: after n in-flight reads have returned, the delivery series has
\* exactly n entries, one per read in read order, a failed read included.
C15_OneEntryPerRead ==
    InFlightReadsProcessed =>
        /\ Len(daily_data) = returned - entered[Len(entered)].returned
        /\ \A i \in 1..Len(daily_data) : daily_data[i].date = monitoring_days[i]

\* C16: when the final read failed or returned zero impressions, the final
\* report still shows campaign id, status, total spend and total impressions,
\* and leaves out only the effective CPM.
C16_ReportKeepsTotals ==
    (final_report.shown /\ Get(result, "impressions", 0) = 0) =>
        /\ final_report.panel.lines = PanelLines \ {"Effective CPM"}
        /\ final_report.panel.campaign_id = media_buy_id
        /\ final_report.panel.status = Get(result, "status", "unknown")
        /\ final_report.panel.spend = Get(result, "spend", 0)

\* C17: no division is executed with a zero divisor, whatever the service
\* returns: effective CPM only when impressions > 0, flight progress only when
\* total_days > 0, the trend scale only when the largest impressions > 0; a
\* run is left by an exception only on a result that is not a mapping.
C17_NoDivisionByZero ==
    /\ ~div_fault
    /\ status = "crashed" => result.isNone

\* the trend of an all-zero series was shown after a read with total_days 0
C17_Witness ==
    /\ Phase = "InFlight"
    /\ pc = "ready"
    /\ status = "running"
    /\ Len(daily_data) = Len(monitoring_days)
    /\ \A i \in 1..Len(daily_data) : daily_data[i].impressions = 0
    /\ "total_days" \in result.has /\ result.total_days = 0
    /\ "impressions" \in result.has

\* as-of dates of the delivery reads issued so far, in order
DeliveryReadDays ==
    LET reads == SelectSeq(calls, LAMBDA c : c.tool = "get_media_buy_delivery")
    IN  [i \in 1..Len(reads) |-> reads[i].params.today]

\* C18: a run whose buy succeeded issues exactly seven delivery reads, as of
\* flight_start - 2, flight_start + 0, + 2, + 5, + 8, + 7 and flight_end + 1,
\* in this order, also when an earlier read failed.
C18_SevenReads ==
    (status \in {"done", "crashed"} /\ TruthyStr(media_buy_id)) =>
        DeliveryReadDays =
            <<flight_start - 2, flight_start, flight_start + 2, flight_start + 5,
              flight_start + 8, flight_start + 7, flight_end + 1>>

\* days of the status checks issued so far, in order
CheckDays ==
    LET checks == SelectSeq(calls, LAMBDA c : c.tool = "check_creative_status")
    IN  [i \in 1..Len(checks) |-> checks[i].day]

\* C19: when the approval loop has ended and no check reported every
\* submitted creative approved, submit-creatives was issued once, before any
\* check, and exactly three checks were issued, on creative_date + 1, + 2, + 3.
C19_ThreeChecksWithoutConvergence ==
    (PollingReturned /\ \A k \in 1..Len(poll_history) : ~poll_history[k].all_reported) =>
        /\ Cardinality(CallIndexes("submit_creatives")) = 1
        /\ \A j \in CallIndexes("submit_creatives") :
              \A k \in CallIndexes("check_creative_status") : j < k
        /\ CheckDays = <<creative_date + 1, creative_date + 2, creative_date + 3>>

\* requests that name the media buy
HandleTools ==
    {"submit_creatives", "get_media_buy_delivery", "update_performance_index",
     "update_media_buy"}

CallCount(tool) == Cardinality(CallIndexes(tool))

\* the calls issued so far are within the documented number per tool
CallBudget ==
    /\ Len(calls) <= 15
    /\ CallCount("list_products") <= 1
    /\ CallCount("create_media_buy") <= 1
    /\ CallCount("submit_creatives") <= 1
    /\ CallCount("check_creative_status") <= 3
    /\ CallCount("get_media_buy_delivery") <= 7
    /\ CallCount("update_performance_index") <= 1
    /\ CallCount("update_media_buy") <= 1

\* the run has stopped in one of the two documented ways
EndedAsDocumented ==
    \/ status = "aborted" /\ Phase = "Buying"
    \/ status = "done" /\ Phase = "Completion"

\* C21: every run terminates, by aborting in Buying or by finishing
\* Completion, and never issues more than 15 remote calls: 1 list-products,
\* 1 create-media-buy, 1 submit-creatives, 3 check-creative-status,
\* 7 get-media-buy-delivery, 1 update-performance-index, 1 update-media-buy.
C21_TerminatesWithinBudget == []CallBudget /\ <>EndedAsDocumented

====
